---- MODULE Spec2Model ----
(***************************************************************************)
(* incognito-monitor, electron main process (src/electron/index.js).       *)
(*                                                                         *)
(* The persisted endpoint record (dataPath), the file the user exports to  *)
(* and imports from, and the ipcMain handlers addNode, deleteNode,         *)
(* getNodes, exportNodes, importNodes, getChains and getBlocks.  Every     *)
(* handler is cut at its await points and stream events: one action per    *)
(* synchronous segment.  The outcome of an RPC call (resolve with a value, *)
(* or reject), of a file write and of a file dialog is chosen by the       *)
(* environment.                                                            *)
(***************************************************************************)
EXTENDS Integers, Sequences, FiniteSets, TLC

VARIABLES file, req, nreq, exported

vars == <<file, req, nreq, exported>>

(* ----------------------------- bounds ---------------------------------- *)

\* number of ipc requests handled in one behaviour
MaxReqs == 2
\* longest endpoint list the store is allowed to grow to
MaxLen == 2
\* largest ActiveShards a beacon best state reports
MaxShards == 2
\* longest endpoint list the record holds when the application starts
InitLen == 1
\* number of requests whose handler has not finished yet
MaxInFlight == 2
\* longest endpoint list the store operations are applied to on their own
StoreLen == 4
\* longest batch of blocks GetBlocks resolves with
MaxBlocks == 2
\* number of requests handled in a behaviour whose rpc calls all complete
LiveReqs == 1

(* ------------------------ values of the model -------------------------- *)

Endpoints ==
  { [name |-> "A", host |-> "h1", port |-> 1],
    [name |-> "A", host |-> "h2", port |-> 2],
    [name |-> "B", host |-> "h1", port |-> 1] }

Names == {"A", "B"}

\* results of GetBlockCount(0)
BlockCounts == {7, 8}

\* results of GetBeaconBestState()
BeaconStates ==
  { [BeaconHeight |-> 100 + (n % 2), BestBlockHash |-> "b", Epoch |-> 1,
     ActiveShards |-> n] : n \in 0..MaxShards }

\* results of GetShardBestState(i)
ShardStates ==
  { [ShardHeight |-> 50, BestBlockHash |-> "s50", Epoch |-> 1, TotalTxns |-> 3],
    [ShardHeight |-> 60, BestBlockHash |-> "s60", Epoch |-> 1, TotalTxns |-> 4] }

\* a javascript variable that was declared and never assigned / one that was
None == <<>>
Some(v) == <<v>>

(* ------------------------- the persisted record ------------------------ *)

\* dataPath does not exist
NoFile == [state |-> "absent", nodes |-> <<>>]
\* dataPath exists and holds no complete JSON text (a copy is in progress)
EmptyFile == [state |-> "empty", nodes |-> <<>>]
\* dataPath holds the JSON text of the list ns
JsonFile(ns) == [state |-> "json", nodes |-> ns]

\* the bundled data.sample
sampleData == <<[name |-> "B", host |-> "h1", port |-> 1]>>

\* fs.existsSync(dataPath)
existsSync(f) == f.state # "absent"

\* a readNodes() that takes a missing file for the empty list '[]'
canReadNodes_defaultsEmpty(f) == f.state \in {"json", "absent"}

\* readNodes() returns normally (readFileSync finds the file, JSON.parse
\* accepts its text)
canReadNodes(f) == f.state = "json"

readNodes(f) == f.nodes

RECURSIVE SeqsUpTo(_, _)
SeqsUpTo(S, n) ==
  IF n = 0 THEN {<<>>}
  ELSE LET shorter == SeqsUpTo(S, n - 1)
       IN  shorter \cup {Append(s, e) : s \in {t \in shorter : Len(t) = n - 1}, e \in S}

(* ------------------------- nodeWithStatus ------------------------------ *)

\* nodeWithStatus with status initialised to 'ONLINE'
nodeWithStatus_startsOnline(node) ==
  [node |-> node, pc |-> "GetNetworkInfo", status |-> "ONLINE",
   totalBlocks |-> None, beaconHeight |-> None, error |-> "none",
   count |-> None, state |-> None,
   issued |-> <<"GetNetworkInfo">>, resolved |-> <<>>]

\* the locals of one nodeWithStatus call, after GetNetworkInfo was issued
\* (count, state: what GetBlockCount and GetBeaconBestState resolved with;
\* issued, resolved: the rpc calls made so far and those that resolved)
nodeWithStatus(node) ==
  [node |-> node, pc |-> "GetNetworkInfo", status |-> "OFFLINE",
   totalBlocks |-> None, beaconHeight |-> None, error |-> "none",
   count |-> None, state |-> None,
   issued |-> <<"GetNetworkInfo">>, resolved |-> <<>>]

\* the values the pending call of a probe can resolve with
probeValues(t) ==
  CASE t.pc = "GetNetworkInfo" -> {"info"}
    [] t.pc = "GetBlockCount" -> BlockCounts
    [] t.pc = "GetBeaconBestState" -> BeaconStates
    [] OTHER -> {}

\* probeResolved without the assignment status = 'ONLINE'
probeResolved_staysOffline(t, v) ==
  CASE t.pc = "GetNetworkInfo" ->
         [t EXCEPT !.resolved = Append(@, t.pc), !.pc = "GetBlockCount",
                   !.issued = Append(@, "GetBlockCount")]
    [] t.pc = "GetBlockCount" ->
         [t EXCEPT !.resolved = Append(@, t.pc),
                   !.count = Some(v), !.totalBlocks = Some(v),
                   !.pc = "GetBeaconBestState",
                   !.issued = Append(@, "GetBeaconBestState")]
    [] t.pc = "GetBeaconBestState" ->
         [t EXCEPT !.resolved = Append(@, t.pc),
                   !.state = Some(v), !.beaconHeight = Some(v.BeaconHeight),
                   !.pc = "return"]

\* the pending call resolves with v: the try block runs on to the next await
probeResolved(t, v) ==
  CASE t.pc = "GetNetworkInfo" ->
         [t EXCEPT !.resolved = Append(@, t.pc), !.pc = "GetBlockCount",
                   !.issued = Append(@, "GetBlockCount")]
    [] t.pc = "GetBlockCount" ->
         [t EXCEPT !.resolved = Append(@, t.pc),
                   !.count = Some(v), !.totalBlocks = Some(v),
                   !.pc = "GetBeaconBestState",
                   !.issued = Append(@, "GetBeaconBestState")]
    [] t.pc = "GetBeaconBestState" ->
         [t EXCEPT !.resolved = Append(@, t.pc),
                   !.state = Some(v), !.beaconHeight = Some(v.BeaconHeight),
                   !.status = "ONLINE", !.pc = "return"]

\* a catch block that leaves the remaining calls of the try block to run
probeRejected_continues(t) ==
  CASE t.pc = "GetNetworkInfo" ->
         [t EXCEPT !.error = t.pc, !.pc = "GetBlockCount",
                   !.issued = Append(@, "GetBlockCount")]
    [] t.pc = "GetBlockCount" ->
         [t EXCEPT !.error = t.pc, !.pc = "GetBeaconBestState",
                   !.issued = Append(@, "GetBeaconBestState")]
    [] OTHER -> [t EXCEPT !.error = t.pc, !.pc = "return"]

\* the pending call rejects: the catch block logs the error
probeRejected(t) == [t EXCEPT !.error = t.pc, !.pc = "return"]

\* the object nodeWithStatus returns
statusRecord(t) ==
  [name |-> t.node.name, host |-> t.node.host, port |-> t.node.port,
   status |-> t.status, totalBlocks |-> t.totalBlocks,
   beaconHeight |-> t.beaconHeight]

\* an await that goes on as soon as one of the calls has returned
allReturned_any(tasks) ==
  tasks = <<>> \/ \E i \in 1..Len(tasks) : tasks[i].pc = "return"

allReturned(tasks) == \A i \in 1..Len(tasks) : tasks[i].pc = "return"

(* ------------------------------ requests ------------------------------- *)

NoNode == [name |-> "", host |-> "", port |-> 0]
NoBeacon == [BeaconHeight |-> 0, BestBlockHash |-> "", Epoch |-> 0, ActiveShards |-> 0]

\* a request slot no ipc message has used yet (data: the text a stream copy
\* of the request has read; returnValue: event.returnValue)
Idle ==
  [op |-> "none", pc |-> "idle", name |-> "", node |-> NoNode, nodes |-> <<>>,
   thrown |-> "none", tasks |-> <<>>, beaconCall |-> "none", beacon |-> NoBeacon,
   shards |-> <<>>, chains |-> <<>>, replies |-> <<>>,
   returnValue |-> "none", data |-> NoFile, shardIndex |-> 0, blocks |-> <<>>]

Reqs == 1..MaxReqs

\* the handler of request r still has a continuation to run
inFlight(q) ==
  /\ q.pc \notin {"idle", "done", "threw"}
  \/ \E k \in 1..Len(q.shards) : q.shards[k].state = "pending"

\* the next ipc message is handled in slot r
Fresh(r) ==
  /\ nreq < MaxReqs
  /\ r = nreq + 1
  /\ Cardinality({p \in Reqs : inFlight(req[p])}) < MaxInFlight

\* what readNodes() does on the record f: return, or throw
\* (ENOENT from readFileSync, SyntaxError from JSON.parse)
readError(f) == IF f.state = "json" THEN "none" ELSE "read"

\* an exception leaves the handler: the promise it returned rejects
throw(q, e) == [q EXCEPT !.pc = "threw", !.thrown = e]

reply(q, channel, payload) ==
  Append(q.replies, [channel |-> channel, payload |-> payload])

(* ------------------------------ Node Store ----------------------------- *)

\* nodes.filter(node => node.name === nodeName)
filterName_keepsMatches(nodes, nodeName) ==
  SelectSeq(nodes, LAMBDA n : n.name = nodeName)

\* a removal that stops at the first entry of the name
filterName_firstMatch(nodes, nodeName) ==
  LET hits == {i \in 1..Len(nodes) : nodes[i].name = nodeName}
  IN  IF hits = {} THEN nodes
      ELSE LET first == CHOOSE i \in hits : \A j \in hits : i <= j
           IN  SubSeq(nodes, 1, first - 1) \o SubSeq(nodes, first + 1, Len(nodes))

\* nodes.filter(node => node.name !== nodeName)
filterName(nodes, nodeName) == SelectSeq(nodes, LAMBDA n : n.name # nodeName)

\* [...nodes, newNode]
spread(nodes, newNode) == Append(nodes, newNode)

\* an addNode whose list was read before the write of an add-node request
\* that is still in flight (as if the handler awaited between read and write)
addNode_staleRead(r, newNode, writeOk) ==
  /\ Fresh(r)
  /\ canReadNodes(file)
  /\ Len(readNodes(file)) < MaxLen
  /\ writeOk
  /\ nreq' = nreq + 1
  /\ exported' = exported
  /\ LET earlier == {p \in Reqs : req[p].op = "add" /\ req[p].pc = "status"}
         nodes == IF earlier = {} THEN readNodes(file)
                  ELSE req[CHOOSE p \in earlier : TRUE].nodes
     IN  /\ file' = JsonFile(spread(nodes, newNode))
         /\ req' = [req EXCEPT ![r] =
                      [Idle EXCEPT !.op = "add", !.node = newNode, !.pc = "status",
                                   !.nodes = nodes,
                                   !.tasks = <<nodeWithStatus(newNode)>>]]

\* an addNode that logs a failed write and goes on to probe the endpoint
addNode_ignoresWriteError(r, newNode, writeOk) ==
  /\ Fresh(r)
  /\ canReadNodes(file)
  /\ Len(readNodes(file)) < MaxLen
  /\ nreq' = nreq + 1
  /\ exported' = exported
  /\ file' = IF writeOk THEN JsonFile(spread(readNodes(file), newNode)) ELSE file
  /\ req' = [req EXCEPT ![r] =
               [Idle EXCEPT !.op = "add", !.node = newNode, !.pc = "status",
                            !.nodes = readNodes(file),
                            !.thrown = IF writeOk THEN "none" ELSE "write",
                            !.tasks = <<nodeWithStatus(newNode)>>]]

\* writeFileSync returns undefined, so the branch `if (err)` is never taken: a
\* write that fails throws, before anything reached the file (writeOk = FALSE)
addNode(r, newNode, writeOk) ==
  /\ Fresh(r)
  /\ canReadNodes(file) => Len(readNodes(file)) < MaxLen
  /\ nreq' = nreq + 1
  /\ exported' = exported
  /\ LET q == [Idle EXCEPT !.op = "add", !.node = newNode]
     IN  IF ~canReadNodes(file)
         THEN /\ file' = file
              /\ req' = [req EXCEPT ![r] = throw(q, readError(file))]
         ELSE IF ~writeOk
         THEN
              /\ file' = file
              /\ req' = [req EXCEPT ![r] =
                           throw([q EXCEPT !.nodes = readNodes(file)], "write")]
         ELSE /\ file' = JsonFile(spread(readNodes(file), newNode))
              /\ req' = [req EXCEPT ![r] =
                           [q EXCEPT !.pc = "status", !.nodes = readNodes(file),
                                     !.tasks = <<nodeWithStatus(newNode)>>]]

deleteNode(r, nodeName, writeOk) ==
  /\ Fresh(r)
  /\ nreq' = nreq + 1
  /\ exported' = exported
  /\ LET q == [Idle EXCEPT !.op = "delete", !.name = nodeName]
     IN  IF ~canReadNodes(file)
         THEN /\ file' = file
              /\ req' = [req EXCEPT ![r] = throw(q, readError(file))]
         ELSE IF ~writeOk
         THEN /\ file' = file
              /\ req' = [req EXCEPT ![r] =
                           throw([q EXCEPT !.nodes = readNodes(file)], "write")]
         ELSE /\ file' = JsonFile(filterName(readNodes(file), nodeName))
              /\ req' = [req EXCEPT ![r] =
                           [q EXCEPT !.pc = "done", !.nodes = readNodes(file),
                                     !.replies = reply(q, "DELETE_NODE", nodeName)]]

(* -------------------------- chain summaries ---------------------------- *)

NoShard == [ShardHeight |-> 0, BestBlockHash |-> "", Epoch |-> 0, TotalTxns |-> 0]

\* nodes.some(item => item.name === nodeName)
hasName(nodes, nodeName) == \E i \in 1..Len(nodes) : nodes[i].name = nodeName

\* nodes.find(item => item.name === nodeName), for a name that is there
find(nodes, nodeName) ==
  nodes[CHOOSE i \in 1..Len(nodes) :
          /\ nodes[i].name = nodeName
          /\ \A j \in 1..(i - 1) : nodes[j].name # nodeName]

\* _.range(0, n + 1)
range_inclusive(n) == [i \in 1..(n + 1) |-> i - 1]

\* _.range(0, n)
range(n) == [i \in 1..n |-> i - 1]

beaconChain(beaconInfo) ==
  [name |-> "Beacon", height |-> beaconInfo.BeaconHeight,
   hash |-> beaconInfo.BestBlockHash, epoch |-> beaconInfo.Epoch, index |-> -1]

\* `Shard ${shardIndex + 1}`
shardName(shardIndex) ==
  <<"Shard 1", "Shard 2", "Shard 3", "Shard 4", "Shard 5">>[shardIndex + 1]

shardChain(shardIndex, shard) ==
  [name |-> shardName(shardIndex), height |-> shard.ShardHeight,
   hash |-> shard.BestBlockHash, epoch |-> shard.Epoch,
   totalTxs |-> shard.TotalTxns, index |-> shardIndex]

\* an insertion step that orders by descending index
RECURSIVE insertByIndex_descending(_, _)
insertByIndex_descending(sorted, c) ==
  IF sorted = <<>> THEN <<c>>
  ELSE IF sorted[Len(sorted)].index >= c.index THEN Append(sorted, c)
  ELSE Append(insertByIndex_descending(SubSeq(sorted, 1, Len(sorted) - 1), c),
              sorted[Len(sorted)])

\* one stable insertion step of _.orderBy(chains, 'index')
RECURSIVE insertByIndex(_, _)
insertByIndex(sorted, c) ==
  IF sorted = <<>> THEN <<c>>
  ELSE IF sorted[Len(sorted)].index <= c.index THEN Append(sorted, c)
  ELSE Append(insertByIndex(SubSeq(sorted, 1, Len(sorted) - 1), c), sorted[Len(sorted)])

RECURSIVE sortByIndex(_)
sortByIndex(chains) ==
  IF chains = <<>> THEN <<>>
  ELSE insertByIndex(sortByIndex(SubSeq(chains, 1, Len(chains) - 1)), chains[Len(chains)])

\* the chains in the order they were pushed
orderBy_asPushed(chains) == chains

\* _.orderBy(chains, 'index')
orderBy(chains) == sortByIndex(chains)

\* nodeInfo after nodeInfo.chains = ...
nodeInfo(t, chains) ==
  [name |-> t.node.name, host |-> t.node.host, port |-> t.node.port,
   status |-> t.status, totalBlocks |-> t.totalBlocks,
   beaconHeight |-> t.beaconHeight, chains |-> chains]

(* --------------------------- status probes ----------------------------- *)

\* what the handler does once its nodeWithStatus calls have all returned
afterStatus(q) ==
  CASE q.op = "add" ->
         [q EXCEPT !.pc = "done",
                   !.replies = reply(q, "ADD_NODE", statusRecord(q.tasks[1]))]
    [] q.op = "getNodes" ->
         [q EXCEPT !.pc = "done",
                   !.replies = reply(q, "GET_NODES",
                                     [i \in 1..Len(q.tasks) |-> statusRecord(q.tasks[i])])]
    [] q.op = "getChains" ->
         [q EXCEPT !.pc = "done",
                   !.replies = reply(q, "GET_CHAINS",
                                     nodeInfo(q.tasks[1], orderBy(q.chains)))]

\* an await that rejects as soon as one nodeWithStatus call has failed
awaitStatus_failFast(q) ==
  IF \E i \in 1..Len(q.tasks) : q.tasks[i].error # "none" THEN throw(q, "rpc")
  ELSE IF allReturned(q.tasks) THEN afterStatus(q) ELSE q

\* the handler awaits the tasks; a handler with nothing to await goes on
awaitStatus(q) == IF allReturned(q.tasks) THEN afterStatus(q) ELSE q

probeStep(r, i, t) ==
  /\ file' = file
  /\ nreq' = nreq
  /\ exported' = exported
  /\ req' = [req EXCEPT ![r] = awaitStatus([req[r] EXCEPT !.tasks[i] = t])]

ProbeResolve(r, i) ==
  /\ req[r].pc = "status"
  /\ i \in 1..Len(req[r].tasks)
  /\ \E v \in probeValues(req[r].tasks[i]) :
        probeStep(r, i, probeResolved(req[r].tasks[i], v))

ProbeReject(r, i) ==
  /\ req[r].pc = "status"
  /\ i \in 1..Len(req[r].tasks)
  /\ req[r].tasks[i].pc # "return"
  /\ probeStep(r, i, probeRejected(req[r].tasks[i]))

(* ------------------------------ getNodes ------------------------------- *)

\* dataPath holds text that JSON.parse rejects
Garbled == [state |-> "garbled", nodes |-> <<>>]

\* nodes.map(nodeWithStatus)
mapStatus(nodes) == [i \in 1..Len(nodes) |-> nodeWithStatus(nodes[i])]

\* let nodes = readNodes(); nodes = await Promise.all(nodes.map(nodeWithStatus))
readAndProbe(q, f) ==
  IF canReadNodes(f)
  THEN awaitStatus([q EXCEPT !.pc = "status", !.nodes = readNodes(f),
                             !.tasks = mapStatus(readNodes(f))])
  ELSE throw(q, readError(f))

getNodes(r) ==
  /\ Fresh(r)
  /\ nreq' = nreq + 1
  /\ exported' = exported
  /\ file' = file
  /\ LET q == [Idle EXCEPT !.op = "getNodes"]
     IN  req' = [req EXCEPT ![r] =
                   IF existsSync(file) THEN readAndProbe(q, file)
                   ELSE [q EXCEPT !.pc = "seeding"]]

\* the write stream opens dataPath with flag 'w'
SeedOpen(r) ==
  /\ req[r].pc = "seeding"
  /\ file' = EmptyFile
  /\ req' = [req EXCEPT ![r].pc = "copying"]
  /\ nreq' = nreq
  /\ exported' = exported

\* the text of data.sample is written at offset 0 of the opened file
seedWrite(f) ==
  IF f.state = "json" /\ Len(f.nodes) > Len(sampleData) THEN Garbled
  ELSE JsonFile(sampleData)

SeedWrite(r) ==
  /\ req[r].pc = "copying"
  /\ file' = seedWrite(file)
  /\ req' = [req EXCEPT ![r].pc = "copied"]
  /\ nreq' = nreq
  /\ exported' = exported

\* stream.on('finish', ...)
SeedFinish(r) ==
  /\ req[r].pc = "copied"
  /\ file' = file
  /\ req' = [req EXCEPT ![r] = readAndProbe(req[r], file)]
  /\ nreq' = nreq
  /\ exported' = exported

(* ----------------------- exportNodes, importNodes ---------------------- *)

\* a read stream opened on the bundled sample instead of dataPath
exportSource_sample(f) == JsonFile(sampleData)

\* fs.createReadStream(dataPath): the text the stream reads from the record f
exportSource(f) == f

\* the text src is written at offset 0 of the opened file dst (every entry of
\* the model takes the same number of bytes)
pipeWrite(dst, src) ==
  IF src.state = "empty" THEN dst
  ELSE IF dst.state = "json" /\ src.state = "json" /\ Len(dst.nodes) > Len(src.nodes)
  THEN Garbled
  ELSE src

\* chosen: dialog.showSaveDialog returned a path
exportNodes(r, chosen) ==
  /\ Fresh(r)
  /\ nreq' = nreq + 1
  /\ UNCHANGED <<file, exported>>
  /\ LET q == [Idle EXCEPT !.op = "export"]
     IN  req' = [req EXCEPT ![r] =
                   IF chosen THEN [q EXCEPT !.pc = "exportOpen"]
                   ELSE [q EXCEPT !.pc = "done", !.returnValue = "cancel"]]

\* the write stream opens savedFilePath with flag 'w'
ExportOpen(r) ==
  /\ req[r].pc = "exportOpen"
  /\ exported' = EmptyFile
  /\ req' = [req EXCEPT ![r].pc = "exportCopy"]
  /\ UNCHANGED <<file, nreq>>

\* the read stream reads dataPath and pipe() writes the text to savedFilePath;
\* a missing dataPath makes the read stream emit 'error', which has no listener
ExportCopy(r) ==
  /\ req[r].pc = "exportCopy"
  /\ IF ~existsSync(file)
     THEN /\ exported' = exported
          /\ req' = [req EXCEPT ![r] = throw(req[r], "read")]
     ELSE /\ exported' = pipeWrite(exported, exportSource(file))
          /\ req' = [req EXCEPT ![r].pc = "exportFinish",
                                ![r].data = exportSource(file)]
  /\ UNCHANGED <<file, nreq>>

\* stream.on('finish', ...)
ExportFinish(r) ==
  /\ req[r].pc = "exportFinish"
  /\ req' = [req EXCEPT ![r].pc = "done", ![r].returnValue = "success"]
  /\ UNCHANGED <<file, nreq, exported>>

\* chosen: dialog.showOpenDialog returned the path of a file, which the model
\* takes to be the file of an earlier export
importNodes(r, chosen) ==
  /\ Fresh(r)
  /\ chosen => existsSync(exported)
  /\ nreq' = nreq + 1
  /\ UNCHANGED <<file, exported>>
  /\ LET q == [Idle EXCEPT !.op = "import"]
     IN  req' = [req EXCEPT ![r] =
                   IF chosen THEN [q EXCEPT !.pc = "importOpen"]
                   ELSE [q EXCEPT !.pc = "done", !.returnValue = "cancel"]]

\* the write stream opens dataPath with flag 'w'
ImportOpen(r) ==
  /\ req[r].pc = "importOpen"
  /\ file' = EmptyFile
  /\ req' = [req EXCEPT ![r].pc = "importCopy"]
  /\ UNCHANGED <<nreq, exported>>

\* the read stream reads the chosen file and pipe() writes the text to dataPath
ImportCopy(r) ==
  /\ req[r].pc = "importCopy"
  /\ file' = pipeWrite(file, exported)
  /\ req' = [req EXCEPT ![r].pc = "importFinish", ![r].data = exported]
  /\ UNCHANGED <<nreq, exported>>

\* stream.on('finish', ...)
ImportFinish(r) ==
  /\ req[r].pc = "importFinish"
  /\ req' = [req EXCEPT ![r].pc = "done", ![r].returnValue = "success"]
  /\ UNCHANGED <<file, nreq, exported>>

(* ------------------------------ getChains ------------------------------ *)

\* a catch block that replies with the chains collected so far
caught_partial(q) ==
  [q EXCEPT !.pc = "done",
            !.replies = reply(q, "GET_CHAINS", [chains |-> orderBy(q.chains), name |-> q.name])]

\* a catch block that logs the error and sends nothing
caught_silent(q) == [q EXCEPT !.pc = "done"]

\* the catch block of getChains
caught(q) ==
  [q EXCEPT !.pc = "done",
            !.replies = reply(q, "GET_CHAINS", [chains |-> <<>>, name |-> q.name])]

getChains(r, nodeName) ==
  /\ Fresh(r)
  /\ nreq' = nreq + 1
  /\ exported' = exported
  /\ file' = file
  /\ LET q == [Idle EXCEPT !.op = "getChains", !.name = nodeName]
     IN  req' = [req EXCEPT ![r] =
                   IF ~canReadNodes(file)
                   THEN \* readNodes throws inside the try block
                        caught(q)
                   ELSE IF ~hasName(readNodes(file), nodeName)
                   THEN \* node is undefined: node.host throws a TypeError
                        caught([q EXCEPT !.nodes = readNodes(file)])
                   ELSE [q EXCEPT !.pc = "beacon", !.beaconCall = "pending",
                                  !.nodes = readNodes(file),
                                  !.node = find(readNodes(file), nodeName)]]

\* await Promise.all(...) of the shard queries
awaitShards(q) ==
  IF \A i \in 1..Len(q.shards) : q.shards[i].state = "resolved"
  THEN [q EXCEPT !.pc = "status", !.tasks = <<nodeWithStatus(q.node)>>]
  ELSE q

\* the queries the fan-out issues, all pending
fanOut(beaconInfo) ==
  [k \in 1..Len(range(beaconInfo.ActiveShards)) |->
     [index |-> range(beaconInfo.ActiveShards)[k], state |-> "pending",
      shard |-> NoShard]]

BeaconResolve(r) ==
  /\ req[r].pc = "beacon"
  /\ \E beaconInfo \in BeaconStates :
       req' = [req EXCEPT ![r] =
                 awaitShards([req[r] EXCEPT !.pc = "shards",
                                            !.beaconCall = "resolved",
                                            !.beacon = beaconInfo,
                                            !.chains = <<beaconChain(beaconInfo)>>,
                                            !.shards = fanOut(beaconInfo)])]
  /\ UNCHANGED <<file, nreq, exported>>

BeaconReject(r) ==
  /\ req[r].pc = "beacon"
  /\ req' = [req EXCEPT ![r] = caught([req[r] EXCEPT !.beaconCall = "rejected"])]
  /\ UNCHANGED <<file, nreq, exported>>

ShardResolve(r, k) ==
  /\ k \in 1..Len(req[r].shards)
  /\ req[r].shards[k].state = "pending"
  /\ \E shard \in ShardStates :
       LET q == [req[r] EXCEPT
                   !.shards[k] = [@ EXCEPT !.state = "resolved", !.shard = shard],
                   !.chains = Append(@, shardChain(req[r].shards[k].index, shard))]
       IN  req' = [req EXCEPT ![r] = IF q.pc = "shards" THEN awaitShards(q) ELSE q]
  /\ UNCHANGED <<file, nreq, exported>>

ShardReject(r, k) ==
  /\ k \in 1..Len(req[r].shards)
  /\ req[r].shards[k].state = "pending"
  /\ LET q == [req[r] EXCEPT !.shards[k].state = "rejected"]
     IN  req' = [req EXCEPT ![r] = IF q.pc = "shards" THEN caught(q) ELSE q]
  /\ UNCHANGED <<file, nreq, exported>>

(* ------------------------------ getBlocks ------------------------------ *)

\* the shardId strings the renderer sends
ShardIds == {"-1", "0"}

\* parseInt(shardId, 10)
parseInt(shardId) ==
  CASE shardId = "-1" -> -1
    [] shardId = "0" -> 0
    [] shardId = "1" -> 1

\* blocks an rpc server returns; Txs, Fee and Reward may be missing
RawBlocks ==
  { [Height |-> 9, Hash |-> "h9", BlockProducer |-> "p1", Txs |-> Some(2),
     Fee |-> Some(1), Reward |-> Some(5), Time |-> 2],
    [Height |-> 8, Hash |-> "h8", BlockProducer |-> "p2", Txs |-> None,
     Fee |-> None, Reward |-> None, Time |-> 1] }

\* results of GetBlocks(10, shardIndex)
Batches == SeqsUpTo(RawBlocks, MaxBlocks)

\* x || 0
orZero(x) == IF x = None THEN 0 ELSE x[1]

formattedBlock(block) ==
  [height |-> block.Height, hash |-> block.Hash, producer |-> block.BlockProducer,
   tXS |-> orZero(block.Txs), fee |-> orZero(block.Fee),
   reward |-> orZero(block.Reward), time |-> block.Time]

\* blocks.map(block => ({...}))
formattedBlocks(blocks) == [i \in 1..Len(blocks) |-> formattedBlock(blocks[i])]

\* shardIndex === -1 ? 'Beacon' : `Shard ${shardIndex + 1}`
chainName(shardIndex) == IF shardIndex = -1 THEN "Beacon" ELSE shardName(shardIndex)

\* a latest block taken from the end of the batch
latestBlock_last(formatted) == formatted[Len(formatted)]

\* const latestBlock = formattedBlocks[0]
latestBlock(formatted) == formatted[1]

\* the chain object getBlocks replies with, for a batch that is not empty
blocksChain(shardIndex, formatted) ==
  [name |-> chainName(shardIndex), totalBlocks |-> latestBlock(formatted).height,
   producer |-> latestBlock(formatted).producer, blocks |-> formatted]

getBlocks(r, nodeName, shardId) ==
  /\ Fresh(r)
  /\ nreq' = nreq + 1
  /\ UNCHANGED <<file, exported>>
  /\ LET q == [Idle EXCEPT !.op = "getBlocks", !.name = nodeName,
                           !.shardIndex = parseInt(shardId)]
     IN  req' = [req EXCEPT ![r] =
                   IF ~canReadNodes(file) THEN throw(q, readError(file))
                   ELSE IF ~hasName(readNodes(file), nodeName)
                   THEN \* node is undefined: node.host throws a TypeError
                        throw([q EXCEPT !.nodes = readNodes(file)], "type")
                   ELSE [q EXCEPT !.pc = "blocks", !.nodes = readNodes(file),
                                  !.node = find(readNodes(file), nodeName)]]

\* GetBlocks resolves; on an empty batch latestBlock is undefined and
\* latestBlock.height throws a TypeError
BlocksResolve(r) ==
  /\ req[r].pc = "blocks"
  /\ \E blocks \in Batches :
       LET q == [req[r] EXCEPT !.blocks = blocks]
       IN  req' = [req EXCEPT ![r] =
                     IF blocks = <<>> THEN throw(q, "type")
                     ELSE [q EXCEPT !.pc = "done",
                                    !.replies = reply(q, "GET_BLOCKS",
                                        blocksChain(q.shardIndex, formattedBlocks(blocks)))]]
  /\ UNCHANGED <<file, nreq, exported>>

\* GetBlocks rejects: nothing catches the error
BlocksReject(r) ==
  /\ req[r].pc = "blocks"
  /\ req' = [req EXCEPT ![r] = throw(req[r], "rpc")]
  /\ UNCHANGED <<file, nreq, exported>>

(* ------------------------------ the system ----------------------------- *)

\* no two entries of the list have the same name
uniqueNames(nodes) ==
  \A i, j \in 1..Len(nodes) : nodes[i].name = nodes[j].name => i = j

\* at start the record is missing (first use) or holds a list the user built
Init ==
  /\ file \in {NoFile} \cup
       {JsonFile(ns) : ns \in {l \in SeqsUpTo(Endpoints, InitLen) : uniqueNames(l)}}
  /\ req = [r \in Reqs |-> Idle]
  /\ nreq = 0
  /\ exported = NoFile

Next ==
  \/ \E r \in Reqs, e \in Endpoints, w \in BOOLEAN : addNode(r, e, w)
  \/ \E r \in Reqs, n \in Names, w \in BOOLEAN : deleteNode(r, n, w)
  \/ \E r \in Reqs : getNodes(r)
  \/ \E r \in Reqs : SeedOpen(r)
  \/ \E r \in Reqs : SeedWrite(r)
  \/ \E r \in Reqs : SeedFinish(r)
  \/ \E r \in Reqs, c \in BOOLEAN : exportNodes(r, c)
  \/ \E r \in Reqs : ExportOpen(r)
  \/ \E r \in Reqs : ExportCopy(r)
  \/ \E r \in Reqs : ExportFinish(r)
  \/ \E r \in Reqs, c \in BOOLEAN : importNodes(r, c)
  \/ \E r \in Reqs : ImportOpen(r)
  \/ \E r \in Reqs : ImportCopy(r)
  \/ \E r \in Reqs : ImportFinish(r)
  \/ \E r \in Reqs, n \in Names : getChains(r, n)
  \/ \E r \in Reqs : BeaconResolve(r)
  \/ \E r \in Reqs : BeaconReject(r)
  \/ \E r \in Reqs, k \in 1..MaxShards : ShardResolve(r, k)
  \/ \E r \in Reqs, k \in 1..MaxShards : ShardReject(r, k)
  \/ \E r \in Reqs, i \in 1..MaxLen : ProbeResolve(r, i)
  \/ \E r \in Reqs, i \in 1..MaxLen : ProbeReject(r, i)
  \/ \E r \in Reqs, n \in Names, i \in ShardIds : getBlocks(r, n, i)
  \/ \E r \in Reqs : BlocksResolve(r)
  \/ \E r \in Reqs : BlocksReject(r)

Spec == Init /\ [][Next]_vars

\* the store operations on their own, applied to every list of up to StoreLen
\* entries, lists that name an endpoint more than once included
StoreInit ==
  /\ file \in {NoFile} \cup {JsonFile(ns) : ns \in SeqsUpTo(Endpoints, StoreLen)}
  /\ req = [r \in Reqs |-> Idle]
  /\ nreq = 0
  /\ exported = NoFile

StoreNext ==
  \/ \E r \in Reqs, e \in Endpoints, w \in BOOLEAN : addNode(r, e, w)
  \/ \E r \in Reqs, n \in Names, w \in BOOLEAN : deleteNode(r, n, w)
  \/ \E r \in Reqs : ProbeResolve(r, 1)
  \/ \E r \in Reqs : ProbeReject(r, 1)

StoreSpec == StoreInit /\ [][StoreNext]_vars

\* the requests that query nodes over rpc, on a record that exists and holds
\* any list of up to MaxLen entries
RpcInit ==
  /\ file \in {JsonFile(ns) : ns \in SeqsUpTo(Endpoints, MaxLen)}
  /\ req = [r \in Reqs |-> Idle]
  /\ nreq = 0
  /\ exported = NoFile

RpcNext ==
  \/ \E r \in Reqs : getNodes(r)
  \/ \E r \in Reqs, n \in Names : getChains(r, n)
  \/ \E r \in Reqs : BeaconResolve(r)
  \/ \E r \in Reqs : BeaconReject(r)
  \/ \E r \in Reqs, k \in 1..MaxShards : ShardResolve(r, k)
  \/ \E r \in Reqs, k \in 1..MaxShards : ShardReject(r, k)
  \/ \E r \in Reqs, i \in 1..MaxLen : ProbeResolve(r, i)
  \/ \E r \in Reqs, i \in 1..MaxLen : ProbeReject(r, i)

RpcSpec == RpcInit /\ [][RpcNext]_vars

\* every rpc call that was issued completes: it resolves or it rejects
RpcCompletes ==
  \A r \in Reqs :
    /\ WF_vars(BeaconResolve(r) \/ BeaconReject(r))
    /\ \A k \in 1..MaxShards : WF_vars(ShardResolve(r, k) \/ ShardReject(r, k))
    /\ \A i \in 1..MaxLen : WF_vars(ProbeResolve(r, i) \/ ProbeReject(r, i))

\* one request after the other: a get-nodes or get-chains request is handled
\* while fewer than LiveReqs requests have been
LiveNext ==
  \/ nreq < LiveReqs /\ \E r \in Reqs : getNodes(r)
  \/ nreq < LiveReqs /\ \E r \in Reqs, n \in Names : getChains(r, n)
  \/ \E r \in Reqs : BeaconResolve(r)
  \/ \E r \in Reqs : BeaconReject(r)
  \/ \E r \in Reqs, k \in 1..MaxShards : ShardResolve(r, k)
  \/ \E r \in Reqs, k \in 1..MaxShards : ShardReject(r, k)
  \/ \E r \in Reqs, i \in 1..MaxLen : ProbeResolve(r, i)
  \/ \E r \in Reqs, i \in 1..MaxLen : ProbeReject(r, i)

FairRpcSpec == RpcInit /\ [][LiveNext]_vars /\ RpcCompletes

(* ======================= properties of the handlers ===================== *)

\* every nodeWithStatus call of the system, as <<request, position>>
Tasks == {<<r, i>> \in Reqs \X (1..(MaxLen + 1)) : i <= Len(req[r].tasks)}

task(p) == req[p[1]].tasks[p[2]]

\* the call has run to its return statement after one of its probes rejected
failedTask(p) == task(p).pc = "return" /\ task(p).error # "none"

\* the call has run to its return statement and no probe rejected
passedTask(p) == task(p).pc = "return" /\ task(p).error = "none"

\* C1 as stated: whenever one of the three probe calls of a nodeWithStatus call
\* fails (whichever it is), the call returns normally with status OFFLINE and
\* with both totalBlocks and beaconHeight undefined.
C1_AllFieldsAbsent ==
  \A p \in Tasks :
    task(p).error # "none" =>
      /\ task(p).pc = "return"
      /\ req[p[1]].pc # "threw"
      /\ statusRecord(task(p)).status = "OFFLINE"
      /\ statusRecord(task(p)).totalBlocks = None
      /\ statusRecord(task(p)).beaconHeight = None

\* C1 amended: whenever one of the three probe calls fails, the call returns
\* normally with status OFFLINE and beaconHeight undefined; totalBlocks is
\* undefined when GetNetworkInfo or GetBlockCount failed, and it is the result
\* of GetBlockCount when GetBeaconBestState was the call that failed.
C1_OfflinePerField ==
  \A p \in Tasks :
    task(p).error # "none" =>
      /\ task(p).pc = "return"
      /\ req[p[1]].pc # "threw"
      /\ statusRecord(task(p)).status = "OFFLINE"
      /\ statusRecord(task(p)).beaconHeight = None
      /\ task(p).error \in {"GetNetworkInfo", "GetBlockCount"} =>
           statusRecord(task(p)).totalBlocks = None
      /\ task(p).error = "GetBeaconBestState" =>
           /\ task(p).count # None
           /\ statusRecord(task(p)).totalBlocks = task(p).count

\* a call whose GetBeaconBestState failed after GetBlockCount had succeeded
C1_Witness ==
  \E p \in Tasks :
    /\ failedTask(p)
    /\ task(p).error = "GetBeaconBestState"
    /\ statusRecord(task(p)).totalBlocks \in {Some(c) : c \in BlockCounts}

\* C2: a nodeWithStatus call whose three probe calls all succeeded returns
\* status ONLINE, the endpoint's own name, host and port, totalBlocks = the
\* result of GetBlockCount and beaconHeight = the BeaconHeight of the result
\* of GetBeaconBestState.
C2_OnlinePopulated ==
  \A p \in Tasks :
    passedTask(p) =>
      /\ task(p).count # None /\ task(p).state # None
      /\ statusRecord(task(p)).status = "ONLINE"
      /\ statusRecord(task(p)).name = task(p).node.name
      /\ statusRecord(task(p)).host = task(p).node.host
      /\ statusRecord(task(p)).port = task(p).node.port
      /\ statusRecord(task(p)).totalBlocks = task(p).count
      /\ statusRecord(task(p)).beaconHeight = Some(task(p).state[1].BeaconHeight)

\* two calls of one batch that both passed, with different answers
C2_Witness ==
  \E p, o \in Tasks :
    /\ passedTask(p) /\ passedTask(o)
    /\ p[1] = o[1]
    /\ task(p).node # task(o).node
    /\ statusRecord(task(p)).totalBlocks # statusRecord(task(o)).totalBlocks
    /\ statusRecord(task(p)).beaconHeight # statusRecord(task(o)).beaconHeight

\* the status record of endpoint n, decided by the outcomes of its own probes
ownRecord(n, t) ==
  [name |-> n.name, host |-> n.host, port |-> n.port,
   status |-> IF t.error = "none" THEN "ONLINE" ELSE "OFFLINE",
   totalBlocks |-> t.count,
   beaconHeight |-> IF t.state = None THEN None ELSE Some(t.state[1].BeaconHeight)]

NodesReqs == {r \in Reqs : req[r].op = "getNodes"}

\* C3: a get-nodes request that found the persisted record replies exactly
\* once, with one status record per endpoint of the list it read, in the order
\* of that list; the record of an endpoint is decided by the outcomes of its
\* own probes only, and a failing endpoint neither makes the handler throw nor
\* suppresses the reply.
C3_BatchIsolation ==
  \A r \in NodesReqs :
    LET q == req[r]
    IN  /\ Len(q.replies) <= 1
        /\ q.pc \in {"status", "done"} => Len(q.tasks) = Len(q.nodes)
        /\ q.pc = "threw" => q.tasks = <<>>
        /\ q.pc \in {"status", "done"} /\ allReturned(q.tasks) => Len(q.replies) = 1
        /\ Len(q.replies) = 1 =>
             /\ q.replies[1].channel = "GET_NODES"
             /\ Len(q.replies[1].payload) = Len(q.nodes)
             /\ \A i \in 1..Len(q.nodes) :
                  q.replies[1].payload[i] = ownRecord(q.nodes[i], q.tasks[i])

\* a reply whose first endpoint failed and whose second endpoint is ONLINE
C3_Witness ==
  \E r \in NodesReqs :
    /\ Len(req[r].replies) = 1
    /\ Len(req[r].nodes) = 2
    /\ req[r].tasks[1].error = "GetNetworkInfo"
    /\ req[r].replies[1].payload[1].status = "OFFLINE"
    /\ req[r].replies[1].payload[2].status = "ONLINE"

ChainsReqs == {r \in Reqs : req[r].op = "getChains"}

\* { chains: [], name: nodeName }
degraded(q) == [chains |-> <<>>, name |-> q.name]

shardStates(q) == {q.shards[k].state : k \in 1..Len(q.shards)}

\* C4: when the node exists and the beacon call and all N = ActiveShards shard
\* calls succeed, the chain list of the reply has exactly N + 1 entries; when
\* the beacon call fails, the reply is exactly {chains: [], name: nodeName} and
\* no shard query is issued.
C4_ChainCount ==
  \A r \in ChainsReqs :
    LET q == req[r]
    IN  /\ q.pc = "done" /\ q.beaconCall = "resolved" /\ shardStates(q) \subseteq {"resolved"} =>
             /\ Len(q.replies) = 1
             /\ Len(q.replies[1].payload.chains) = q.beacon.ActiveShards + 1
        /\ q.beaconCall = "rejected" =>
             /\ q.replies = <<[channel |-> "GET_CHAINS", payload |-> degraded(q)]>>
             /\ q.shards = <<>>

\* a reply with three chains, and a request whose beacon call failed
C4_Witness ==
  /\ \E r \in ChainsReqs :
       /\ req[r].pc = "done"
       /\ req[r].beacon.ActiveShards = 2
       /\ Len(req[r].replies[1].payload.chains) = 3
  /\ \E r \in ChainsReqs : req[r].beaconCall = "rejected"

\* C5: if the node name is not in the store, or the beacon call fails, or at
\* least one shard call fails (whatever the other shard calls have done by
\* then), the one reply of the request is {chains: [], name: nodeName}; no
\* reply carries a non-empty list of fewer than ActiveShards + 1 entries.
C5_AllOrNothing ==
  \A r \in ChainsReqs :
    LET q == req[r]
    IN  /\ Len(q.replies) <= 1
        /\ \/ ~hasName(q.nodes, q.name)
           \/ q.beaconCall = "rejected"
           \/ "rejected" \in shardStates(q)
           => q.replies = <<[channel |-> "GET_CHAINS", payload |-> degraded(q)]>>
        /\ Len(q.replies) = 1 =>
             \/ q.replies[1].payload.chains = <<>>
             \/ Len(q.replies[1].payload.chains) = q.beacon.ActiveShards + 1

\* a shard call failed after another shard call had pushed its chain
C5_Witness ==
  \E r \in ChainsReqs :
    /\ "rejected" \in shardStates(req[r])
    /\ "resolved" \in shardStates(req[r])
    /\ Len(req[r].chains) = 2
    /\ req[r].replies[1].payload = degraded(req[r])

\* the request has sent a reply that carries chains
fullReply(q) == Len(q.replies) >= 1 /\ q.replies[1].payload.chains # <<>>

\* C6: in a non-degraded reply the chain list is strictly ascending by index,
\* has exactly one entry of index -1, which is the first, and has each shard
\* index 0..N-1 exactly once.
C6_SortedByIndex ==
  \A r \in ChainsReqs :
    fullReply(req[r]) =>
      LET cs == req[r].replies[1].payload.chains
          N == req[r].beacon.ActiveShards
      IN  /\ \A i \in 1..(Len(cs) - 1) : cs[i].index < cs[i + 1].index
          /\ Cardinality({i \in 1..Len(cs) : cs[i].index = -1}) = 1
          /\ cs[1].index = -1
          /\ \A n \in 0..(N - 1) : Cardinality({i \in 1..Len(cs) : cs[i].index = n}) = 1
          /\ Len(cs) = N + 1

\* a non-degraded reply of a request whose shard 1 answered before shard 0
C6_Witness ==
  \E r \in ChainsReqs :
    /\ fullReply(req[r])
    /\ Len(req[r].chains) = 3
    /\ req[r].chains[2].index = 1
    /\ req[r].chains[3].index = 0

\* the chain list decided by the answers alone
merged(q) ==
  <<beaconChain(q.beacon)>> \o
    [k \in 1..Len(q.shards) |-> shardChain(k - 1, q.shards[k].shard)]

\* the fan-out: once the beacon call has resolved, one query per shard index
\* 0..N-1 exists
allIssued(q) ==
  q.beaconCall = "resolved" =>
    /\ Len(q.shards) = q.beacon.ActiveShards
    /\ \A k \in 1..Len(q.shards) : q.shards[k].index = k - 1

\* C7 as stated: the shard queries are issued together, the reply of the
\* request is sent only after every shard query has completed, and the chain
\* list of the reply is the same for every completion order.
C7_ReplyAfterAllShards ==
  \A r \in ChainsReqs :
    LET q == req[r]
    IN  /\ allIssued(q)
        /\ Len(q.replies) >= 1 => "pending" \notin shardStates(q)
        /\ fullReply(q) => q.replies[1].payload.chains = merged(q)

\* C7 amended: the shard queries are issued together; a reply that carries
\* chains is sent only after every shard query has completed, and its chain
\* list is the same for every completion order: the beacon entry, then the
\* entry of each shard in index order with that shard's own height and hash.
\* (The degraded reply is sent when the first shard query fails, while other
\* shard queries may still be pending.)
C7_MergeAfterAllShards ==
  \A r \in ChainsReqs :
    LET q == req[r]
    IN  /\ allIssued(q)
        /\ fullReply(q) =>
             /\ shardStates(q) \subseteq {"resolved"}
             /\ q.replies[1].payload.chains = merged(q)

\* a reply with chains after shard 1 (height 50) answered before shard 0 (height 60)
C7_Witness ==
  \E r \in ChainsReqs :
    /\ fullReply(req[r])
    /\ Len(req[r].chains) = 3
    /\ req[r].chains[2].index = 1 /\ req[r].chains[2].height = 50
    /\ req[r].chains[3].index = 0 /\ req[r].chains[3].height = 60
    /\ req[r].replies[1].payload.chains # req[r].chains

\* C8: in every state of the persisted record no two entries of the list have
\* the same name.
C8_UniqueNames == canReadNodes(file) => uniqueNames(readNodes(file))

\* the step in which the add-node handler of request r rewrites the record
addWrites(r) == req[r].pc = "idle" /\ req'[r].op = "add" /\ req'[r].pc = "status"

occurrences(nodes, e) == Cardinality({i \in 1..Len(nodes) : nodes[i] = e})

\* C9: when add-node has written, the persisted list is the previous list with
\* the new endpoint appended as its last element, and the new endpoint occurs
\* in the list exactly once.
C9_AppendedOnce ==
  [][\A r \in Reqs :
       addWrites(r) =>
         /\ canReadNodes(file')
         /\ readNodes(file') = Append(readNodes(file), req'[r].node)
         /\ occurrences(readNodes(file'), req'[r].node) = 1]_vars

\* the step in which the delete-node handler of request r runs
deleteRuns(r) == req[r].pc = "idle" /\ req'[r].op = "delete"

\* C10: delete-node of a name that is in no entry of the record leaves the
\* record as it was and, unless the write itself fails, replies echoing the
\* name; after a delete-node that replied the name is in no entry, so that a
\* second delete-node of the name changes nothing.
C10_DeleteAbsentNoOp ==
  [][\A r \in Reqs :
       deleteRuns(r) /\ canReadNodes(file) =>
         LET n == req'[r].name
         IN  /\ ~hasName(readNodes(file), n) =>
                  /\ file' = file
                  /\ req'[r].thrown \in {"none", "write"}
                  /\ req'[r].thrown = "none" =>
                       /\ req'[r].pc = "done"
                       /\ req'[r].replies = <<[channel |-> "DELETE_NODE", payload |-> n]>>
             /\ req'[r].pc = "done" =>
                  /\ canReadNodes(file')
                  /\ ~hasName(readNodes(file'), n)]_vars

\* a delete-node that replied after reading a non-empty list without the name
C10_Witness ==
  \E r \in Reqs :
    /\ req[r].op = "delete"
    /\ req[r].pc = "done"
    /\ req[r].nodes # <<>>
    /\ ~hasName(req[r].nodes, req[r].name)
    /\ req[r].replies = <<[channel |-> "DELETE_NODE", payload |-> req[r].name]>>
    /\ file = JsonFile(req[r].nodes)


\* the positions of the entries of nodes that are not named nodeName
kept(nodes, nodeName) == {i \in 1..Len(nodes) : nodes[i].name # nodeName}

\* C11: a delete-node that rewrites the record removes every entry of the
\* given name, several entries of that name included, and every entry of
\* another name is still there, at the position its rank among the entries
\* of other names gives it (the original relative order).
C11_RemovesAllMatches ==
  [][\A r \in Reqs :
       deleteRuns(r) /\ req'[r].pc = "done" =>
         LET old == readNodes(file)
             new == readNodes(file')
             keep == kept(old, req'[r].name)
         IN  /\ canReadNodes(file')
             /\ kept(new, req'[r].name) = 1..Len(new)
             /\ Len(new) = Cardinality(keep)
             /\ \A i \in keep : new[Cardinality({j \in keep : j <= i})] = old[i]]_vars

\* a delete-node has replied after reading a list with two entries of its
\* name and, around one of them, two different entries of another name
C11_Witness ==
  \E r \in Reqs :
    LET q == req[r]
    IN  /\ q.op = "delete"
        /\ q.pc = "done"
        /\ Len(q.nodes) = 4
        /\ Cardinality(kept(q.nodes, q.name)) = 2
        /\ q.nodes[1].name # q.name
        /\ q.nodes[2].name = q.name
        /\ q.nodes[3].name # q.name
        /\ q.nodes[3] # q.nodes[1]
        /\ file = JsonFile(<<q.nodes[1], q.nodes[3]>>)


\* the step in which the stream of export request r copies the record
exportCopies(r) == req[r].pc = "exportCopy" /\ req'[r].pc = "exportFinish"

\* the step in which the stream of import request r writes the record
importCopies(r) == req[r].pc = "importCopy" /\ req'[r].pc = "importFinish"

\* C12: the copy of an export leaves the record alone and makes the chosen
\* file, as the export opened it, the text of the record; the copy of an
\* import, into the record as the import opened it (nothing else wrote it in
\* between), makes the record the text of the chosen file, so that importing
\* the file a finished export wrote gives back the record that export read;
\* and returnValue becomes 'success' only in the 'finish' handler, after the
\* copy.
C12_RoundTrip ==
  [][\A r \in Reqs :
       /\ exportCopies(r) =>
            /\ file' = file
            /\ req'[r].data = file
            /\ exported = EmptyFile => exported' = file
       /\ importCopies(r) /\ file = EmptyFile =>
            /\ exported' = exported
            /\ file' = exported
            /\ \A e \in Reqs :
                 req[e].op = "export" /\ req[e].pc = "done" /\ exported = req[e].data =>
                   /\ file' = req[e].data
                   /\ canReadNodes(req[e].data) => readNodes(file') = readNodes(req[e].data)
       /\ req[r].returnValue # "success" /\ req'[r].returnValue = "success" =>
            /\ req[r].pc \in {"exportFinish", "importFinish"}
            /\ req[r].op = "export" => existsSync(req[r].data)
            /\ req[r].op = "import" => existsSync(req[r].data)]_vars

\* an export of a list other than the sample returned 'success', the import
\* of the file it wrote returned 'success', and the record is that list again
C12_Witness ==
  \E e, i \in Reqs :
    /\ req[e].op = "export" /\ req[e].returnValue = "success"
    /\ req[i].op = "import" /\ req[i].returnValue = "success"
    /\ canReadNodes(req[e].data)
    /\ readNodes(req[e].data) \notin {<<>>, sampleData}
    /\ req[i].data = req[e].data
    /\ exported = req[e].data
    /\ file = req[e].data


\* C13 as stated: a get-nodes request that finds no record creates it as a
\* copy of the sample and reads it only after the copy has finished, so that
\* it probes the endpoints of the sample in the sample's order; and the
\* sample is copied only while no record exists: a seeding never opens (and
\* so never truncates and overwrites) a record that is already there.
C13_SeedsOnce ==
  [][\A r \in Reqs :
       /\ req[r].pc = "seeding" /\ req'[r].pc = "copying" => ~existsSync(file)
       /\ req[r].pc = "copying" /\ req'[r].pc = "copied" => file' = JsonFile(sampleData)
       /\ req[r].pc = "copied" /\ req'[r].pc # "copied" =>
            /\ req'[r].pc # "threw"
            /\ req'[r].nodes = sampleData
            /\ Len(req'[r].tasks) = Len(sampleData)]_vars


\* the step in which the handler of add-node or delete-node request r rewrites
\* the record
storeWrites(r) ==
  /\ req[r].pc = "idle"
  /\ req'[r].op \in {"add", "delete"}
  /\ req'[r].thrown = "none"

\* C14 as stated: when an add-node or delete-node request rewrites the record
\* while an add-node request is in flight, its list was computed from a read
\* taken before the write of that request (the list that request read), so
\* that the update of the request in flight is lost.
C14_LostUpdate ==
  \A r1, r2 \in Reqs :
    /\ r1 < r2
    /\ req[r1].op = "add" /\ req[r1].pc = "status"
    /\ req[r2].op \in {"add", "delete"} /\ req[r2].pc \in {"status", "done"}
    => req[r2].nodes = req[r1].nodes

\* C14 amended: add-node and delete-node read and rewrite the record in one
\* synchronous segment, so the list a request writes is computed from the
\* record as it is at the moment of the write: the endpoint of every add-node
\* request still in flight that is in the record stays in it unless the
\* writing request is a delete-node of its name, and no update is lost between
\* add-node and delete-node requests.
C14_NoLostUpdate ==
  [][\A r \in Reqs :
       storeWrites(r) =>
         /\ req'[r].nodes = readNodes(file)
         /\ canReadNodes(file')
         /\ \A p \in Reqs :
              /\ req[p].op = "add" /\ req[p].pc = "status"
              /\ \E i \in 1..Len(readNodes(file)) : readNodes(file)[i] = req[p].node
              /\ ~(req'[r].op = "delete" /\ req'[r].name = req[p].node.name)
              => \E i \in 1..Len(readNodes(file')) : readNodes(file')[i] = req[p].node]_vars

\* two add-node requests are in flight and the record holds the list the
\* first one read followed by the endpoints of both
C14_Witness ==
  \E r1, r2 \in Reqs :
    /\ r1 < r2
    /\ req[r1].op = "add" /\ req[r1].pc = "status"
    /\ req[r2].op = "add" /\ req[r2].pc = "status"
    /\ req[r2].nodes = Append(req[r1].nodes, req[r1].node)
    /\ file = JsonFile(Append(req[r2].nodes, req[r2].node))


\* the step in which the add-node handler of request r runs up to its await
addRuns(r) == req[r].pc = "idle" /\ req'[r].op = "add"

BlocksReqs == {r \in Reqs : req[r].op = "getBlocks"}

\* C16: a get-blocks request whose GetBlocks call fails, or whose node name is
\* in no entry of the record, ends with the error thrown and without a reply,
\* and no step of a get-blocks request changes the record; a request whose
\* call resolved with a batch that is not empty has sent exactly one
\* GET_BLOCKS reply, with all blocks of the batch, whose totalBlocks and
\* producer are the height and the producer of the first block of the batch.
C16_BlocksNoDegradation ==
  [][\A r \in Reqs :
       LET q == req'[r]
       IN  q.op = "getBlocks" =>
             /\ req'[r] # req[r] => file' = file
             /\ Len(q.replies) <= 1
             /\ q.thrown # "none" => q.pc = "threw" /\ q.replies = <<>>
             /\ ~hasName(q.nodes, q.name) => q.pc = "threw"
             /\ req[r].pc = "blocks" /\ q.blocks = <<>> /\ q.pc # "blocks" => q.pc = "threw"
             /\ q.blocks # <<>> =>
                  /\ q.pc = "done"
                  /\ Len(q.replies) = 1
                  /\ q.replies[1].channel = "GET_BLOCKS"
                  /\ q.replies[1].payload.totalBlocks = q.blocks[1].Height
                  /\ q.replies[1].payload.producer = q.blocks[1].BlockProducer
                  /\ Len(q.replies[1].payload.blocks) = Len(q.blocks)
                  /\ \A i \in 1..Len(q.blocks) :
                       q.replies[1].payload.blocks[i].height = q.blocks[i].Height
             /\ q.pc = "done" => q.blocks # <<>>]_vars

\* one get-blocks request has thrown on a rejected GetBlocks call, another has
\* replied on a batch of two blocks whose first block is not the highest
C16_Witness ==
  \E r1, r2 \in BlocksReqs :
    /\ req[r1].thrown = "rpc" /\ req[r1].replies = <<>>
    /\ req[r2].pc = "done"
    /\ Len(req[r2].blocks) = 2
    /\ req[r2].blocks[1].Height < req[r2].blocks[2].Height
    /\ req[r2].replies[1].payload.totalBlocks = req[r2].blocks[1].Height


\* the calls of the try block of nodeWithStatus, in program order
probeOrder == <<"GetNetworkInfo", "GetBlockCount", "GetBeaconBestState">>

\* C17: a nodeWithStatus call issues GetNetworkInfo, GetBlockCount and
\* GetBeaconBestState in that order, each only after the one before it has
\* resolved, and issues no further call once one has failed: the calls issued
\* are a prefix of that order one longer than the calls resolved (or all
\* three), a failed call is the last one issued, and a step issues at most
\* one call, in the step in which the call before it resolves.
C17_ProbeOrder ==
  [][\A r \in Reqs : \A i \in 1..Len(req'[r].tasks) :
       LET t == req'[r].tasks[i]
       IN  /\ Len(t.issued) \in 1..3
           /\ t.issued = SubSeq(probeOrder, 1, Len(t.issued))
           /\ t.resolved = SubSeq(probeOrder, 1, Len(t.resolved))
           /\ Len(t.issued) \in {Len(t.resolved), Len(t.resolved) + 1}
           /\ Len(t.issued) = Len(t.resolved) <=> t.pc = "return" /\ t.error = "none"
           /\ t.pc # "return" => t.pc = t.issued[Len(t.issued)] /\ t.error = "none"
           /\ t.error # "none" =>
                /\ t.pc = "return"
                /\ t.error = t.issued[Len(t.issued)]
           /\ i <= Len(req[r].tasks) =>
                LET s == req[r].tasks[i]
                IN  /\ s.error # "none" => t = s
                    /\ Len(t.issued) <= Len(s.issued) + 1
                    /\ Len(t.issued) = Len(s.issued) + 1 =>
                         /\ s.pc = s.issued[Len(s.issued)]
                         /\ t.resolved = Append(s.resolved, s.pc)]_vars

\* one nodeWithStatus call has made all three calls and returned, another has
\* returned after its second call failed, having issued two
C17_Witness ==
  \E p, o \in Tasks :
    /\ task(p).issued = probeOrder /\ task(p).resolved = probeOrder
    /\ task(o).error = "GetBlockCount"
    /\ task(o).issued = <<"GetNetworkInfo", "GetBlockCount">>
    /\ task(o).resolved = <<"GetNetworkInfo">>
    /\ task(o).pc = "return"


\* an rpc call made for the request has not completed
callPending(q) ==
  \/ q.beaconCall = "pending"
  \/ "pending" \in shardStates(q)
  \/ \E i \in 1..Len(q.tasks) : q.tasks[i].pc # "return"

\* the next ipc message can be handled, as a get-nodes or a get-chains request
canHandle ==
  /\ ENABLED (\E r \in Reqs : getNodes(r))
  /\ ENABLED (\E r \in Reqs, n \in Names : getChains(r, n))

\* C18 as stated: while an rpc call made for a get-nodes or a get-chains
\* request (a probe call, the beacon call, a shard call) has not completed,
\* the request has sent no reply, whatever its other calls have done; and a
\* request that waits does not keep further requests from being handled.
C18_NoReplyWhileHung ==
  /\ \A r \in NodesReqs \cup ChainsReqs : callPending(req[r]) => req[r].replies = <<>>
  /\ nreq < MaxReqs => canHandle

\* C18 amended: while a probe call of a get-nodes request has not completed,
\* the request has sent no reply; while the beacon call or a status-probe call
\* of a get-chains request has not completed, the request has sent no reply;
\* while a shard call has not completed, the request has sent no reply unless
\* another shard call has failed, in which case it has sent the degraded reply
\* {chains: [], name}; and a request that waits does not keep further requests
\* from being handled.
C18_NoReplyWhileHungUnlessShardFailed ==
  /\ \A r \in NodesReqs : callPending(req[r]) => req[r].replies = <<>>
  /\ \A r \in ChainsReqs :
       LET q == req[r]
       IN  /\ q.beaconCall = "pending" => q.replies = <<>>
           /\ (\E i \in 1..Len(q.tasks) : q.tasks[i].pc # "return") => q.replies = <<>>
           /\ "pending" \in shardStates(q) =>
                \/ q.replies = <<>>
                \/ /\ "rejected" \in shardStates(q)
                   /\ q.replies = <<[channel |-> "GET_CHAINS", payload |-> degraded(q)]>>
  /\ nreq < MaxReqs => canHandle

\* a get-nodes request waits without a reply on the probe of its second
\* endpoint after the probe of the first has returned, and a request handled
\* after it has replied
C18_Witness ==
  \E r1, r2 \in Reqs :
    /\ r1 < r2
    /\ req[r1].op = "getNodes" /\ req[r1].pc = "status"
    /\ Len(req[r1].tasks) = 2
    /\ req[r1].tasks[1].pc = "return"
    /\ req[r1].tasks[2].pc # "return"
    /\ req[r1].replies = <<>>
    /\ req[r2].pc = "done" /\ Len(req[r2].replies) = 1


C20_AddDeleteNeverSeed ==
  [][/\ \A r \in Reqs :
          (addRuns(r) \/ deleteRuns(r)) /\ ~existsSync(file) =>
            /\ file' = file
            /\ req'[r].pc = "threw"
            /\ req'[r].thrown = "read"
            /\ req'[r].replies = <<>>
            /\ req'[r].tasks = <<>>
     /\ ~existsSync(file) /\ existsSync(file') =>
          \E r \in Reqs :
            \/ req[r].op = "getNodes" /\ req[r].pc = "seeding" /\ req'[r].pc = "copying"
            \/ req[r].op = "import" /\ req[r].pc = "importOpen" /\ req'[r].pc = "importCopy"]_vars

\* an add-node and a delete-node have both thrown on their read and the
\* record is still missing
C20_Witness ==
  \E r1, r2 \in Reqs :
    /\ req[r1].op = "add" /\ req[r1].thrown = "read" /\ req[r1].replies = <<>>
    /\ req[r2].op = "delete" /\ req[r2].thrown = "read" /\ req[r2].replies = <<>>
    /\ file = NoFile

====
